---- MODULE Spec2Model ----
(***************************************************************************)
(* Model of ste100_linter.py: the morphology helpers, the lexicon builder, *)
(* the wordlist files, the tokenizer, the sentence splitter, the rule      *)
(* engine (lint_text) and the control flow of main().                      *)
(*                                                                         *)
(* Text is a sequence of one-character strings.  Offsets are the 0-based   *)
(* offsets of the Python source: At(s, i) is s[i], Slice(s, a, b) is       *)
(* s[a:b].  A wordlist file is a record [exists, lines]; the order of the  *)
(* lines in the file is not modelled (load_wordlist reads it into a set).  *)
(***************************************************************************)
EXTENDS Integers, Sequences, FiniteSets, TLC

VARIABLES
    pc,             \* position of the modelled run
    text,           \* the text handed to lint_text (the local text of main)
    maxWords,       \* args.max_sentence_words
    approvedFile,   \* the file at args.approved
    forbiddenFile,  \* the file at args.forbidden
    allcapsFile,    \* the file at args.allcaps
    pdf,            \* the dictionary document at pdf_path
    rebuild,        \* args.rebuild
    argText,        \* args.text: given or not (None), and its value
    argFile,        \* args.file: given or not (None), and the file at that path
    built,          \* the lexicon builder and the sweep ran in this run
    issues,         \* the list returned by lint_text
    base,           \* argument of the morphology helpers
    forms           \* their results

vars == <<pc, text, maxWords, approvedFile, forbiddenFile, allcapsFile,
          pdf, rebuild, argText, argFile, built, issues, base, forms>>

----------------------------------------------------------------------------
(* Bounds of the model *)

MaxFrags == 3        \* fragments per generated input text
MaxBaseLen == 4      \* characters per generated morphology base
MaxRows == 2         \* dictionary rows per generated document

----------------------------------------------------------------------------
(* Characters *)

LowerSeq == <<"a","b","c","d","e","f","g","h","i","j","k","l","m","n","o","p","q","r","s","t","u","v","w","x","y","z">>
UpperSeq == <<"A","B","C","D","E","F","G","H","I","J","K","L","M","N","O","P","Q","R","S","T","U","V","W","X","Y","Z">>
DigitSeq == <<"0","1","2","3","4","5","6","7","8","9">>

LowerLetters == {LowerSeq[i] : i \in 1..26}
UpperLetters == {UpperSeq[i] : i \in 1..26}
Digits == {DigitSeq[i] : i \in 1..10}
Spaces == {" ", "\t", "\n"}
Others == {".", "!", "?", "-", "/", "'", "_", "(", ")", ",", ":", ">"}
Chars == LowerLetters \cup UpperLetters \cup Digits \cup Spaces \cup Others

LowerMap == [c \in Chars |->
               IF c \in UpperLetters
               THEN LowerSeq[CHOOSE i \in 1..26 : UpperSeq[i] = c] ELSE c]
UpperMap == [c \in Chars |->
               IF c \in LowerLetters
               THEN UpperSeq[CHOOSE i \in 1..26 : LowerSeq[i] = c] ELSE c]

\* the least element of a non-empty set of offsets
Min(S) == CHOOSE x \in S : \A y \in S : x <= y

At(s, i) == s[i + 1]
Slice(s, a, b) == SubSeq(s, a + 1, b)

\* str.lower() / str.upper()
lower(s) == [i \in 1..Len(s) |-> LowerMap[s[i]]]
upper(s) == [i \in 1..Len(s) |-> UpperMap[s[i]]]

\* str.endswith(e)
endswith(s, e) == Len(s) >= Len(e) /\ SubSeq(s, Len(s) - Len(e) + 1, Len(s)) = e

\* str.isdigit(): non-empty and every character a digit
isdigit(s) == Len(s) > 0 /\ \A i \in 1..Len(s) : s[i] \in Digits

\* str.isupper(): no lowercase letter and at least one uppercase letter
isupper(s) == /\ \A i \in 1..Len(s) : s[i] \notin LowerLetters
              /\ \E i \in 1..Len(s) : s[i] \in UpperLetters

RECURSIVE lstrip(_)
lstrip(s) == IF Len(s) > 0 /\ s[1] \in Spaces THEN lstrip(Tail(s)) ELSE s

RECURSIVE rstrip(_)
rstrip(s) == IF Len(s) > 0 /\ s[Len(s)] \in Spaces
             THEN rstrip(SubSeq(s, 1, Len(s) - 1)) ELSE s

\* str.strip()
strip(s) == rstrip(lstrip(s))

\* str(n) of an integer, as the f-strings format it
RECURSIVE Dec(_)
Dec(n) == IF n < 0 THEN <<"-">> \o Dec(0 - n)
          ELSE IF n < 10 THEN <<DigitSeq[n + 1]>>
          ELSE Dec(n \div 10) \o <<DigitSeq[(n % 10) + 1]>>

----------------------------------------------------------------------------
(* Morphology helpers *)

\* c.lower() in "aeiou", for one character c
_is_vowel(c) == LowerMap[c] \in {"a", "e", "i", "o", "u"}

_ends_with_any(w, endings) == \E e \in endings : endswith(w, e)

\* mutant: the final consonant doubled after consonant-vowel also when it
\* is w, x or y
DoubleFinalConsonantAlsoWXY(w) ==
    IF Len(w) < 3 THEN FALSE
    ELSE /\ LowerMap[w[Len(w)]] \notin {"a", "e", "i", "o", "u"}
         /\ LowerMap[w[Len(w) - 1]] \in {"a", "e", "i", "o", "u"}
         /\ LowerMap[w[Len(w) - 2]] \notin {"a", "e", "i", "o", "u"}

_double_final_consonant_for_ing_ed(w) ==
    IF Len(w) < 3 THEN FALSE
    ELSE LET last == LowerMap[w[Len(w)]]
         IN  IF last \in {"w", "x", "y"} THEN FALSE
             ELSE ~_is_vowel(last) /\ _is_vowel(w[Len(w) - 1]) /\ ~_is_vowel(w[Len(w) - 2])

\* b[:-n]
DropLast(b, n) == SubSeq(b, 1, Len(b) - n)

SibilantEndings == {<<"s">>, <<"x">>, <<"z">>, <<"c","h">>, <<"s","h">>}

\* the 3rd person singular form
ThirdSingular(b) ==
    IF _ends_with_any(lower(b), SibilantEndings \cup {<<"o">>}) THEN b \o <<"E","S">>
    ELSE IF endswith(lower(b), <<"y">>) /\ Len(b) > 1 /\ ~_is_vowel(b[Len(b) - 1])
         THEN DropLast(b, 1) \o <<"I","E","S">>
         ELSE b \o <<"S">>

\* the past form
PastForm(b) ==
    IF endswith(lower(b), <<"e">>) THEN b \o <<"D">>
    ELSE IF _double_final_consonant_for_ing_ed(lower(b)) THEN b \o <<b[Len(b)]>> \o <<"E","D">>
         ELSE b \o <<"E","D">>

\* the -ING form
IngForm(b) ==
    IF endswith(lower(b), <<"i","e">>) THEN DropLast(b, 2) \o <<"Y","I","N","G">>
    ELSE IF endswith(lower(b), <<"e">>) /\ ~endswith(lower(b), <<"e","e">>)
         THEN DropLast(b, 1) \o <<"I","N","G">>
         ELSE IF _double_final_consonant_for_ing_ed(lower(b))
              THEN b \o <<b[Len(b)]>> \o <<"I","N","G">>
              ELSE b \o <<"I","N","G">>

_verb_inflections(b) == {b, ThirdSingular(b), PastForm(b), IngForm(b)}

\* mutant: a base that ends in "s" taken to be its own plural
PluralFormsKeepS(b) ==
    IF endswith(lower(b), <<"s">>) THEN {b}
    ELSE IF _ends_with_any(lower(b), SibilantEndings) THEN {b, b \o <<"E","S">>}
    ELSE IF endswith(lower(b), <<"y">>) /\ Len(b) > 1 /\ ~_is_vowel(b[Len(b) - 1])
         THEN {b, DropLast(b, 1) \o <<"I","E","S">>}
         ELSE {b, b \o <<"S">>}

_plural_forms(b) ==
    IF _ends_with_any(lower(b), SibilantEndings) THEN {b, b \o <<"E","S">>}
    ELSE IF endswith(lower(b), <<"y">>) /\ Len(b) > 1 /\ ~_is_vowel(b[Len(b) - 1])
         THEN {b, DropLast(b, 1) \o <<"I","E","S">>}
         ELSE {b, b \o <<"S">>}

----------------------------------------------------------------------------
(* Wordlist files *)

NoFile == [exists |-> FALSE, lines |-> {}]

\* args.text is None, or the string t
NoTextArg == [given |-> FALSE, value |-> <<>>]
TextArg(t) == [given |-> TRUE, value |-> t]

\* args.file is None, or a (non-empty) path: to no file, or to a file with
\* the content c
NoFileArg == [given |-> FALSE, exists |-> FALSE, content |-> <<>>]
MissingInputFile == [given |-> TRUE, exists |-> FALSE, content |-> <<>>]
InputFileOf(c) == [given |-> TRUE, exists |-> TRUE, content |-> c]
FileOf(ws) == [exists |-> TRUE, lines |-> ws]

\* load_wordlist: how the call ends and, when it returns, the stripped
\* non-blank lines as a set; open() raises when the file does not exist
load_wordlist(f) ==
    IF f.exists
    THEN [status |-> "returned", words |-> {strip(l) : l \in f.lines} \ {<<>>}]
    ELSE [status |-> "FileNotFoundError", words |-> {}]

----------------------------------------------------------------------------
(* Tokenizer and sentence splitter *)

IsLetter(c) == c \in LowerLetters \cup UpperLetters
IsTokenChar(c) == IsLetter(c) \/ c \in Digits \/ c \in {"-", "/", "'"}
IsTerminator(c) == c \in {".", "!", "?"}

\* end of the maximal run [A-Za-z0-9\-\/']* that starts at p
RECURSIVE TokenEnd(_, _)
TokenEnd(s, p) == IF p < Len(s) /\ IsTokenChar(At(s, p)) THEN TokenEnd(s, p + 1) ELSE p

\* re.finditer of the token pattern from position pos on: the leftmost
\* letter at or after pos starts the next match, the scan goes on at its end
RECURSIVE TokScan(_, _)
TokScan(s, pos) ==
    LET starts == {p \in pos..(Len(s) - 1) : IsLetter(At(s, p))}
    IN  IF starts = {} THEN <<>>
        ELSE LET b == Min(starts)
                 e == TokenEnd(s, b + 1)
             IN  <<(<<Slice(s, b, e), b, e>>)>> \o TokScan(s, e)

tokenize_words_with_spans(s) == TokScan(s, 0)

\* the loop over the terminators (the matches of [\.!\?] from pos on, start
\* being the end of the previous one) and the trailing fragment
RECURSIVE SentScan(_, _, _)
SentScan(s, pos, start) ==
    LET terms == {p \in pos..(Len(s) - 1) : IsTerminator(At(s, p))}
    IN  IF terms = {}
        THEN IF start < Len(s) /\ strip(Slice(s, start, Len(s))) # <<>>
             THEN <<(<<strip(Slice(s, start, Len(s))), start, Len(s)>>)>>
             ELSE <<>>
        ELSE LET end == Min(terms) + 1
                 chunk == strip(Slice(s, start, end))
             IN  (IF chunk # <<>> THEN <<(<<chunk, start, end>>)>> ELSE <<>>)
                 \o SentScan(s, end, end)

split_sentences_with_spans(s) == SentScan(s, 0, 0)

\* mutant: an acronym needs four letters
IsAcronymFourLetters(tok) ==
    /\ \A i \in 1..Len(tok) : tok[i] \notin LowerLetters
    /\ Cardinality({i \in 1..Len(tok) : tok[i] \in UpperLetters}) >= 4

is_acronym(tok) ==
    isupper(tok) /\ Cardinality({i \in 1..Len(tok) : IsLetter(tok[i])}) >= 2

----------------------------------------------------------------------------
(* Passive-voice pattern  \b(am|is|are|was|were|be|been|being)\s+\w+ed\b   *)
(* with re.IGNORECASE, matched as the backtracking engine matches it: the  *)
(* alternatives in order, \s+ and \w+ greedy, giving back one character at *)
(* a time.  A failed match is NoMatch.                                     *)

NoMatch == 0 - 1

BeVerbs == << <<"a","m">>, <<"i","s">>, <<"a","r","e">>, <<"w","a","s">>,
              <<"w","e","r","e">>, <<"b","e">>, <<"b","e","e","n">>,
              <<"b","e","i","n","g">> >>

IsWordChar(c) == IsLetter(c) \/ c \in Digits \/ c = "_"

\* \b at offset p
Boundary(s, p) == (p > 0 /\ IsWordChar(At(s, p - 1))) # (p < Len(s) /\ IsWordChar(At(s, p)))

\* mutant: the literal compared without re.IGNORECASE
MatchLitCaseSensitive(s, p, lit) == p + Len(lit) <= Len(s) /\ Slice(s, p, p + Len(lit)) = lit

\* a lowercase literal of the pattern at offset p, ignoring case
MatchLit(s, p, lit) == p + Len(lit) <= Len(s) /\ lower(Slice(s, p, p + Len(lit))) = lit

RECURSIVE SpaceEnd(_, _)
SpaceEnd(s, p) == IF p < Len(s) /\ At(s, p) \in Spaces THEN SpaceEnd(s, p + 1) ELSE p

RECURSIVE WordEnd(_, _)
WordEnd(s, p) == IF p < Len(s) /\ IsWordChar(At(s, p)) THEN WordEnd(s, p + 1) ELSE p

\* \w+ed\b from q, with \w+ trying j characters, then j-1, ...
RECURSIVE EdTry(_, _, _)
EdTry(s, q, j) ==
    IF j < 1 THEN NoMatch
    ELSE IF MatchLit(s, q + j, <<"e","d">>) /\ Boundary(s, q + j + 2)
         THEN q + j + 2
         ELSE EdTry(s, q, j - 1)

\* \s+\w+ed\b from p, with \s+ trying k characters, then k-1, ...
RECURSIVE WsTry(_, _, _)
WsTry(s, p, k) ==
    IF k < 1 THEN NoMatch
    ELSE LET q == p + k
             r == EdTry(s, q, WordEnd(s, q) - q)
         IN  IF r # NoMatch THEN r ELSE WsTry(s, p, k - 1)

\* (am|is|...)\s+\w+ed\b at i, trying alternative a, then a+1, ...
RECURSIVE AltTry(_, _, _)
AltTry(s, i, a) ==
    IF a > Len(BeVerbs) THEN NoMatch
    ELSE IF MatchLit(s, i, BeVerbs[a])
         THEN LET p == i + Len(BeVerbs[a])
                  r == WsTry(s, p, SpaceEnd(s, p) - p)
              IN  IF r # NoMatch THEN r ELSE AltTry(s, i, a + 1)
         ELSE AltTry(s, i, a + 1)

\* end of the match that starts at offset i, or NoMatch
PassiveMatchAt(s, i) == IF Boundary(s, i) THEN AltTry(s, i, 1) ELSE NoMatch

\* re.finditer: the leftmost match from pos on, then on from its end
RECURSIVE PassiveScan(_, _)
PassiveScan(s, pos) ==
    LET starts == {i \in pos..Len(s) : PassiveMatchAt(s, i) # NoMatch}
    IN  IF starts = {} THEN <<>>
        ELSE LET b == Min(starts)
                 e == PassiveMatchAt(s, b)
             IN  <<(<<b, e>>)>> \o PassiveScan(s, e)

----------------------------------------------------------------------------
(* Rule engine: lint_text *)

\* mutant: the approved words matched without lowercasing them
EffectiveApprovedNoLower(approvedF, allcapsF) ==
    LET official == load_wordlist(approvedF)
    IN  IF official.status # "returned"
        THEN [status |-> official.status, words |-> {}]
        ELSE [status |-> "returned",
              words |-> official.words
                          \cup (IF allcapsF.exists THEN load_wordlist(allcapsF).words
                                                   ELSE {})]

\* effective approved set: approved words plus the ALL-CAPS sweep, lowercased;
\* the call of load_wordlist on the approved file is not guarded and its
\* error ends lint_text
EffectiveApproved(approvedF, allcapsF) ==
    LET official == load_wordlist(approvedF)
    IN  IF official.status # "returned"
        THEN [status |-> official.status, words |-> {}]
        ELSE [status |-> "returned",
              words |-> {lower(w) : w \in official.words}
                          \cup (IF allcapsF.exists
                                THEN {lower(w) : w \in load_wordlist(allcapsF).words}
                                ELSE {})]

\* forbidden set: empty when the file does not exist
ForbiddenSet(forbiddenF) ==
    IF forbiddenF.exists THEN {lower(w) : w \in load_wordlist(forbiddenF).words} ELSE {}

SentMsg(count, N) ==
    <<"S","e","n","t","e","n","c","e"," ","h","a","s"," ">> \o Dec(count)
      \o <<" ","w","o","r","d","s"," ","(",">">> \o Dec(N) \o <<")",".">>
ForbMsg(tok) ==
    <<"F","o","r","b","i","d","d","e","n"," ","w","o","r","d",":"," ","'">> \o tok \o <<"'">>
UnapMsg(tok) ==
    <<"N","o","t"," ","i","n"," ","a","p","p","r","o","v","e","d"," ","l","e","x","i","c","o","n",":"," ","'">>
      \o tok \o <<"'">>
PassMsg(m) ==
    <<"P","o","s","s","i","b","l","e"," ","p","a","s","s","i","v","e",":"," ","'">> \o m \o <<"'">>

\* mutant: the length test off by one
TooLongOffByOne(count, N) == count >= N

\* the length test of the sentence loop
TooLong(count, N) == count > N

\* the sentence loop, from sentence index k (0-based) on
RECURSIVE SentenceIssues(_, _, _)
SentenceIssues(sents, k, N) ==
    IF k >= Len(sents) THEN <<>>
    ELSE LET sent == sents[k + 1]
             words == tokenize_words_with_spans(sent[1])
         IN  (IF TooLong(Len(words), N)
              THEN <<[type |-> "SentenceTooLong",
                      message |-> SentMsg(Len(words), N),
                      sentence_index |-> k,
                      span |-> <<sent[2], sent[3]>>,
                      suggestion |-> "Split into shorter sentences (<= 20 words)."]>>
              ELSE <<>>)
             \o SentenceIssues(sents, k + 1, N)

\* mutant: tokens of up to three characters skipped
SkipTokenUpTo3(tok) == isdigit(lower(tok)) \/ Len(lower(tok)) <= 3 \/ is_acronym(tok)

\* the tokens the word checks pass over
SkipToken(tok) == isdigit(lower(tok)) \/ Len(lower(tok)) < 3 \/ is_acronym(tok)

\* mutant: no continue after the forbidden-word issue
WordCheckNoContinue(t, forbidden, approved) ==
    IF SkipToken(t[1]) THEN <<>>
    ELSE (IF lower(t[1]) \in forbidden
          THEN <<[type |-> "ForbiddenWord", message |-> ForbMsg(t[1]),
                  span |-> <<t[2], t[3]>>,
                  suggestion |-> "Replace with an approved alternative per ASD-STE100."]>>
          ELSE <<>>)
         \o (IF lower(t[1]) \notin approved
             THEN <<[type |-> "UnapprovedWord", message |-> UnapMsg(t[1]),
                     span |-> <<t[2], t[3]>>,
                     suggestion |-> "Prefer an approved STE word or rephrase."]>>
             ELSE <<>>)

\* the body of the word loop for one token t = (tok, start, end)
WordCheck(t, forbidden, approved) ==
    IF SkipToken(t[1]) THEN <<>>
    ELSE IF lower(t[1]) \in forbidden
         THEN <<[type |-> "ForbiddenWord", message |-> ForbMsg(t[1]),
                 span |-> <<t[2], t[3]>>,
                 suggestion |-> "Replace with an approved alternative per ASD-STE100."]>>
         ELSE IF lower(t[1]) \notin approved
              THEN <<[type |-> "UnapprovedWord", message |-> UnapMsg(t[1]),
                      span |-> <<t[2], t[3]>>,
                      suggestion |-> "Prefer an approved STE word or rephrase."]>>
              ELSE <<>>

RECURSIVE WordIssues(_, _, _, _)
WordIssues(toks, k, forbidden, approved) ==
    IF k > Len(toks) THEN <<>>
    ELSE WordCheck(toks[k], forbidden, approved)
           \o WordIssues(toks, k + 1, forbidden, approved)

\* mutant: the match end taken one character too far
PassiveIssuePastEnd(s, m) ==
    [type |-> "PassiveVoice", message |-> PassMsg(Slice(s, m[1], m[2])),
     span |-> <<m[1], m[2] + 1>>, suggestion |-> "Use active voice where possible."]

\* the issue of one match m = (m.start(), m.end())
PassiveIssue(s, m) ==
    [type |-> "PassiveVoice", message |-> PassMsg(Slice(s, m[1], m[2])),
     span |-> <<m[1], m[2]>>, suggestion |-> "Use active voice where possible."]

PassiveIssues(s) ==
    LET ms == PassiveScan(s, 0) IN [k \in 1..Len(ms) |-> PassiveIssue(s, ms[k])]

\* mutant: the passive-voice loop run before the word loop
lint_text_passive_first(s, approvedF, forbiddenF, allcapsF, N) ==
    LET approved == EffectiveApproved(approvedF, allcapsF)
    IN  IF approved.status # "returned"
        THEN [status |-> approved.status, issues |-> <<>>]
        ELSE [status |-> "returned",
              issues |-> SentenceIssues(split_sentences_with_spans(s), 0, N)
                           \o PassiveIssues(s)
                           \o WordIssues(tokenize_words_with_spans(s), 1,
                                         ForbiddenSet(forbiddenF), approved.words)]

\* lint_text: how the call ends and the list it returns
lint_text(s, approvedF, forbiddenF, allcapsF, N) ==
    LET approved == EffectiveApproved(approvedF, allcapsF)
    IN  IF approved.status # "returned"
        THEN [status |-> approved.status, issues |-> <<>>]
        ELSE [status |-> "returned",
              issues |-> SentenceIssues(split_sentences_with_spans(s), 0, N)
                           \o WordIssues(tokenize_words_with_spans(s), 1,
                                         ForbiddenSet(forbiddenF), approved.words)
                           \o PassiveIssues(s)]

----------------------------------------------------------------------------
(* The dictionary document and the lexicon builder *)

\* pdf = [exists, reads, text]: the file at pdf_path, the number of
\* extract_text_from_pdf calls that succeed on it (ReadsAlways: every call)
\* and the text the backends extract from it
ReadsAlways == 2
NoPdf == [exists |-> FALSE, reads |-> 0, text |-> <<>>]

\* HEADER_SPLIT_RE  Word\s+Approved meaning/?\s+STE  (IGNORECASE) at offset
\* i: the end of the match, or NoMatch
HeaderMatchAt(s, i) ==
    IF ~MatchLit(s, i, <<"w","o","r","d">>) THEN NoMatch
    ELSE LET p1 == i + 4
             p2 == SpaceEnd(s, p1)
             lit == <<"a","p","p","r","o","v","e","d"," ","m","e","a","n","i","n","g">>
         IN  IF p2 = p1 \/ ~MatchLit(s, p2, lit) THEN NoMatch
             ELSE LET p3 == p2 + Len(lit)
                      p4 == IF p3 < Len(s) /\ At(s, p3) = "/" THEN p3 + 1 ELSE p3
                      p5 == SpaceEnd(s, p4)
                  IN  IF p5 = p4 \/ ~MatchLit(s, p5, <<"s","t","e">>) THEN NoMatch
                      ELSE p5 + 3

\* HEADER_SPLIT_RE.split(full): the pieces between the header matches, the
\* current piece starting at start and the search going on from pos
RECURSIVE HeaderSplit(_, _, _)
HeaderSplit(s, pos, start) ==
    LET starts == {i \in pos..Len(s) : HeaderMatchAt(s, i) # NoMatch}
    IN  IF starts = {} THEN <<Slice(s, start, Len(s))>>
        ELSE LET b == Min(starts)
                 e == HeaderMatchAt(s, b)
             IN  <<Slice(s, start, b)>> \o HeaderSplit(s, e, e)

IsHeadwordChar(c) == IsLetter(c) \/ c \in Digits \/ c \in {"-", "/", " "}
IsPosChar(c) == IsLetter(c) \/ c \in {".", " "}

RECURSIVE HeadwordEnd(_, _)
HeadwordEnd(s, p) == IF p < Len(s) /\ IsHeadwordChar(At(s, p)) THEN HeadwordEnd(s, p + 1) ELSE p

RECURSIVE PosEnd(_, _)
PosEnd(s, p) == IF p < Len(s) /\ IsPosChar(At(s, p)) THEN PosEnd(s, p + 1) ELSE p

\* HEADWORD_RE  \n([A-Za-z][A-Za-z0-9\-/ ]{1,})\s*\(([a-zA-Z\. ]+)\)\s  at
\* offset i: <<group 1, group 2, end of the match>>, or <<>> for no match.
\* Both groups are the maximal runs of their classes: giving characters back
\* cannot make the literal that follows match.
HeadwordMatchAt(s, i) ==
    IF ~(i + 1 < Len(s) /\ At(s, i) = "\n" /\ IsLetter(At(s, i + 1))) THEN <<>>
    ELSE LET r == HeadwordEnd(s, i + 2)
             w == SpaceEnd(s, r)
         IN  IF r < i + 3 \/ ~(w < Len(s) /\ At(s, w) = "(") THEN <<>>
             ELSE LET q == PosEnd(s, w + 1)
                  IN  IF q < w + 2 \/ ~(q + 1 < Len(s) /\ At(s, q) = ")"
                                         /\ At(s, q + 1) \in Spaces)
                      THEN <<>>
                      ELSE <<Slice(s, i + 1, r), Slice(s, w + 1, q), q + 2>>

\* HEADWORD_RE.finditer(sec), from pos on
RECURSIVE HeadwordScan(_, _)
HeadwordScan(s, pos) ==
    LET starts == {i \in pos..Len(s) : HeadwordMatchAt(s, i) # <<>>}
    IN  IF starts = {} THEN <<>>
        ELSE LET m == HeadwordMatchAt(s, Min(starts))
             IN  <<m>> \o HeadwordScan(s, m[3])

\* "v" in pos
Contains(w, c) == \E i \in 1..Len(w) : w[i] = c

\* mutant: a headword with a lowercase letter taken as forbidden, mixed case
\* included
HeadwordClassMixedForbidden(hw) ==
    IF ~(\E i \in 1..Len(hw) : IsLetter(hw[i])) THEN "skip"
    ELSE IF upper(hw) = hw /\ lower(hw) # hw THEN "approved"
    ELSE IF upper(hw) # hw THEN "forbidden"
    ELSE "skip"

\* the branch the loop body takes for the headword hw
HeadwordClass(hw) ==
    IF ~(\E i \in 1..Len(hw) : IsLetter(hw[i])) THEN "skip"
    ELSE IF upper(hw) = hw /\ lower(hw) # hw THEN "approved"
    ELSE IF lower(hw) = hw /\ upper(hw) # hw THEN "forbidden"
    ELSE "skip"

\* the forms an approved headword adds
ApprovedForms(hw, pos) ==
    IF Contains(pos, "v") THEN _verb_inflections(hw)
    ELSE IF Contains(pos, "n") THEN _plural_forms(hw)
    ELSE {hw}

\* the loop body for one match m, lex = <<approved_words, forbidden_words>>
HeadwordStep(lex, m) ==
    LET hw == strip(m[1])
        pos == lower(strip(m[2]))
    IN  IF HeadwordClass(hw) = "approved" THEN <<lex[1] \cup ApprovedForms(hw, pos), lex[2]>>
        ELSE IF HeadwordClass(hw) = "forbidden" THEN <<lex[1], lex[2] \cup {hw}>>
        ELSE lex

RECURSIVE MatchesFold(_, _, _)
MatchesFold(lex, ms, k) ==
    IF k > Len(ms) THEN lex ELSE MatchesFold(HeadwordStep(lex, ms[k]), ms, k + 1)

\* the loop over parts[1:], from part k on
RECURSIVE SectionsFold(_, _, _)
SectionsFold(lex, parts, k) ==
    IF k > Len(parts) THEN lex
    ELSE SectionsFold(MatchesFold(lex, HeadwordScan(parts[k], 0), 1), parts, k + 1)

\* build_lexicons_from_pdf on the extracted text: <<approved, forbidden>>
build_lexicons(full) == SectionsFold(<<{}, {}>>, HeaderSplit(full, 0, 0), 2)

(* Allow-list sweep:  \b[A-Z][A-Z0-9\-]{2,}\b  *)

IsCapsChar(c) == c \in UpperLetters \/ c \in Digits \/ c = "-"

RECURSIVE CapsEnd(_, _)
CapsEnd(s, p) == IF p < Len(s) /\ IsCapsChar(At(s, p)) THEN CapsEnd(s, p + 1) ELSE p

\* the greedy {2,} ending at e, then at e-1, ..., down to two characters
RECURSIVE CapsTry(_, _, _)
CapsTry(s, i, e) ==
    IF e < i + 3 THEN NoMatch
    ELSE IF Boundary(s, e) THEN e ELSE CapsTry(s, i, e - 1)

CapsMatchAt(s, i) ==
    IF i < Len(s) /\ Boundary(s, i) /\ At(s, i) \in UpperLetters
    THEN CapsTry(s, i, CapsEnd(s, i + 1)) ELSE NoMatch

\* re.findall of the sweep pattern, from pos on, as the set of its matches
RECURSIVE CapsScan(_, _)
CapsScan(s, pos) ==
    LET starts == {i \in pos..Len(s) : CapsMatchAt(s, i) # NoMatch}
    IN  IF starts = {} THEN {}
        ELSE LET b == Min(starts)
                 e == CapsMatchAt(s, b)
             IN  {Slice(s, b, e)} \cup CapsScan(s, e)

SweepStoplist ==
    {<<"W","O","R","D">>,
     <<"A","P","P","R","O","V","E","D">>,
     <<"M","E","A","N","I","N","G">>,
     <<"A","L","T","E","R","N","A","T","I","V","E","S">>,
     <<"S","T","E">>,
     <<"E","X","A","M","P","L","E">>,
     <<"N","O","N">>,
     <<"P","A","R","T">>,
     <<"S","P","E","E","C","H">>,
     <<"P","A","G","E">>,
     <<"I","S","S","U","E">>,
     <<"D","I","C","T","I","O","N","A","R","Y">>,
     <<"T","A","B","L","E">>,
     <<"F","I","G","U","R","E">>,
     <<"A","P","P","E","N","D","I","X">>,
     <<"S","E","C","T","I","O","N">>,
     <<"N","O","T","E">>}

\* extract_all_caps_words on the extracted text
all_caps_words(full) == {m \in CapsScan(full, 0) : ~isdigit(m) /\ m \notin SweepStoplist}

----------------------------------------------------------------------------
(* Inputs of the rule-engine runs *)

\* "The operator starts the system and does the procedure in 25 minutes."
Sentence9 ==
    <<"T","h","e"," ","o","p","e","r","a","t","o","r"," ","s","t","a","r",
      "t","s"," ","t","h","e"," ","s","y","s","t","e","m"," ","a","n","d",
      " ","d","o","e","s"," ","t","h","e"," ","p","r","o","c","e","d","u",
      "r","e"," ","i","n"," ","2","5"," ","m","i","n","u","t","e","s",".">>

\* "The valve was opened by the technician."
Sentence10 ==
    <<"T","h","e"," ","v","a","l","v","e"," ","w","a","s"," ","o","p","e",
      "n","e","d"," ","b","y"," ","t","h","e"," ","t","e","c","h","n","i",
      "c","i","a","n",".">>

\* "a a a a a a a a a a a a a a a a a a a a."
Words20 ==
    <<"a"," ","a"," ","a"," ","a"," ","a"," ","a"," ","a"," ","a"," ","a",
      " ","a"," ","a"," ","a"," ","a"," ","a"," ","a"," ","a"," ","a"," ",
      "a"," ","a"," ","a",".">>

\* "a a a a a a a a a a a a a a a a a a a a a."
Words21 ==
    <<"a"," ","a"," ","a"," ","a"," ","a"," ","a"," ","a"," ","a"," ","a",
      " ","a"," ","a"," ","a"," ","a"," ","a"," ","a"," ","a"," ","a"," ",
      "a"," ","a"," ","a"," ","a",".">>

\* 170 characters
TwoLong ==
    <<"g","o"," ","g","o"," ","g","o"," ","g","o"," ","g","o"," ","g","o",
      " ","g","o"," ","g","o"," ","g","o"," ","g","o"," ","g","o"," ","g",
      "o"," ","g","o"," ","g","o"," ","g","o"," ","g","o"," ","g","o"," ",
      "g","o"," ","g","o"," ","g","o"," ","g","o","!"," ","a"," ","a"," ",
      "a"," ","a"," ","a"," ","a"," ","a"," ","a"," ","a"," ","a"," ","a",
      " ","a"," ","a"," ","a"," ","a"," ","a"," ","a"," ","a"," ","a"," ",
      "a","."," ","i","t"," ","i","t"," ","i","t"," ","i","t"," ","i","t",
      " ","i","t"," ","i","t"," ","i","t"," ","i","t"," ","i","t"," ","i",
      "t"," ","i","t"," ","i","t"," ","i","t"," ","i","t"," ","i","t"," ",
      "i","t"," ","i","t"," ","i","t"," ","i","t"," ","i","t"," ","i","t">>

\* "Bad is used on. It WAS ended bad. being \taged-ed be ed"
Multi ==
    <<"B","a","d"," ","i","s"," ","u","s","e","d"," ","o","n","."," ","I",
      "t"," ","W","A","S"," ","e","n","d","e","d"," ","b","a","d","."," ",
      "b","e","i","n","g"," ","\t","a","g","e","d","-","e","d"," ","b","e",
      " ","e","d">>

\* "BAD ON is bad on"
Acronyms ==
    <<"B","A","D"," ","O","N"," ","i","s"," ","b","a","d"," ","o","n">>

NamedTexts == {Sentence9, Sentence10, Words20, Words21, TwoLong, Multi, Acronyms}

\* fragments the generated texts are concatenated from
Frags == { <<"i","s">>, <<"B","e">>, <<" ">>, <<"u","s","e","d">>, <<"e","d">>,
           <<"-">>, <<".">>, <<"b","a","d">>, <<"o","n">> }

RECURSIVE TextsOf(_)
TextsOf(n) == IF n = 0 THEN {<<>>}
              ELSE LET S == TextsOf(n - 1) IN S \cup {t \o f : t \in S, f \in Frags}

GenTexts == TextsOf(MaxFrags)

\* --max-sentence-words: the default, and small values for the short texts
DefaultMaxWords == 20
SmallMaxWords == {0, 1}
NamedMaxWords == {DefaultMaxWords, 3}

\* wordlist fixtures (approved, forbidden, allcaps)
LexA == <<FileOf({<<"I","S">>, <<"U","S","E","D">>, <<"B","E">>}),
          FileOf({<<"b","a","d">>, <<"o","n">>}),
          FileOf({})>>
LexB == <<FileOf({<<"B","A","D">>, <<"O","N">>, <<"E","D">>}),
          FileOf({<<"b","a","d">>}),
          FileOf({<<"U","S","E","D">>})>>
LexC == <<FileOf({}), NoFile, NoFile>>
\* the approved file is missing
LexD == <<NoFile, FileOf({<<"b","a","d">>}), FileOf({<<"U","S","E","D">>})>>

\* the approved words of the quick-start sentence, as the builder writes them
QuickStartWords == {<<"O","P","E","R","A","T","O","R">>, <<"S","T","A","R","T">>, <<"S","T","A","R","T","S">>, <<"S","Y","S","T","E","M">>,
                    <<"D","O">>, <<"D","O","E","S">>, <<"P","R","O","C","E","D","U","R","E">>,
                    <<"M","I","N","U","T","E">>, <<"M","I","N","U","T","E","S">>}
FunctionWords == {<<"T","H","E">>, <<"A","N","D">>}

QuickStartLex == {<<FileOf(QuickStartWords \cup X), FileOf({}), c>> :
                    X \in SUBSET FunctionWords,
                    c \in {NoFile, FileOf({<<"T","H","E">>})}}

GenLex == {LexA, LexB, LexC, LexD}
NamedLex == GenLex \cup QuickStartLex

NoForms == [verb |-> {}, plural |-> {}]

----------------------------------------------------------------------------
(* Rule-engine runs: lint_text called on an input text with the wordlist   *)
(* files in place.                                                         *)

InitLint ==
    /\ pc = "call"
    /\ \/ text \in GenTexts /\ maxWords \in SmallMaxWords
          /\ \E L \in GenLex :
                approvedFile = L[1] /\ forbiddenFile = L[2] /\ allcapsFile = L[3]
       \/ text \in NamedTexts /\ maxWords \in NamedMaxWords
          /\ \E L \in NamedLex :
                approvedFile = L[1] /\ forbiddenFile = L[2] /\ allcapsFile = L[3]
    /\ pdf = NoPdf /\ rebuild = FALSE /\ built = FALSE
    /\ argText = NoTextArg /\ argFile = NoFileArg
    /\ issues = <<>>
    /\ base = <<>> /\ forms = NoForms

Lint ==
    /\ pc = "call"
    /\ LET r == lint_text(text, approvedFile, forbiddenFile, allcapsFile, maxWords)
       IN  /\ issues' = r.issues
           /\ pc' = IF r.status = "returned" THEN "returned" ELSE "error"
    /\ UNCHANGED <<text, maxWords, approvedFile, forbiddenFile, allcapsFile,
                   pdf, rebuild, argText, argFile, built, base, forms>>

NextLint == Lint

SpecLint == InitLint /\ [][NextLint]_vars

----------------------------------------------------------------------------
(* Properties of the rule engine *)

Returned == pc = "returned"

IsWordIssue(x) == x.type \in {"ForbiddenWord", "UnapprovedWord"}

\* phase of an issue: 1 sentence length, 2 word checks, 3 passive voice
PhaseOf(x) == IF x.type = "SentenceTooLong" THEN 1
              ELSE IF IsWordIssue(x) THEN 2 ELSE 3

IssuesOfType(ty) == {k \in 1..Len(issues) : issues[k].type = ty}

\* C1: the returned list is ordered in three phases: the SentenceTooLong
\* issues in increasing sentence index, then the ForbiddenWord/UnapprovedWord
\* issues in increasing start offset, then the PassiveVoice issues in
\* increasing start offset; no issue of a later phase precedes one of an
\* earlier phase.
C1_ThreePhaseOrder ==
    Returned =>
      \A a, b \in 1..Len(issues) :
         a < b =>
           /\ PhaseOf(issues[a]) <= PhaseOf(issues[b])
           /\ (PhaseOf(issues[a]) = 1 /\ PhaseOf(issues[b]) = 1)
                 => issues[a].sentence_index < issues[b].sentence_index
           /\ (PhaseOf(issues[a]) = PhaseOf(issues[b]) /\ PhaseOf(issues[a]) > 1)
                 => issues[a].span[1] < issues[b].span[1]

\* a returned list with at least two issues of each phase
C1_Witness ==
    /\ Returned
    /\ Cardinality(IssuesOfType("SentenceTooLong")) >= 2
    /\ Cardinality({k \in 1..Len(issues) : IsWordIssue(issues[k])}) >= 2
    /\ Cardinality(IssuesOfType("PassiveVoice")) >= 2

\* the SentenceTooLong issues reported for sentence index k
TooLongFor(k) == {i \in IssuesOfType("SentenceTooLong") : issues[i].sentence_index = k}

\* C2: for every sentence of the splitter and every maximum N there is
\* exactly one SentenceTooLong issue for the sentence if its token count is
\* greater than N and none otherwise, and the message states the count
\* (20 words with N = 20: no issue; 21 words: one issue, stating 21).
C2_SentenceLengthBoundary ==
    Returned =>
      LET sents == split_sentences_with_spans(text) IN
      /\ \A i \in IssuesOfType("SentenceTooLong") :
            issues[i].sentence_index \in 0..(Len(sents) - 1)
      /\ \A k \in 0..(Len(sents) - 1) :
            LET count == Len(tokenize_words_with_spans(sents[k + 1][1])) IN
            IF count > maxWords
            THEN /\ Cardinality(TooLongFor(k)) = 1
                 /\ \A i \in TooLongFor(k) :
                       /\ issues[i].message = SentMsg(count, maxWords)
                       /\ issues[i].span = <<sents[k + 1][2], sents[k + 1][3]>>
            ELSE TooLongFor(k) = {}
      /\ (text = Words20 /\ maxWords = 20) => IssuesOfType("SentenceTooLong") = {}
      /\ (text = Words21 /\ maxWords = 20) =>
            /\ Cardinality(IssuesOfType("SentenceTooLong")) = 1
            /\ \A i \in IssuesOfType("SentenceTooLong") :
                  SubSeq(issues[i].message, 14, 16) = <<"2", "1", " ">>

\* the 21-word sentence linted with the default maximum
C2_Witness ==
    /\ Returned /\ text = Words21 /\ maxWords = 20
    /\ Cardinality(IssuesOfType("SentenceTooLong")) = 1

\* the occurrences (tok, start, end) of the word w as a whole token
TokenOccurrences(w) ==
    LET toks == tokenize_words_with_spans(text)
    IN  {toks[k] : k \in {j \in 1..Len(toks) : toks[j][1] = w}}

HasIssue(ty, start, end) ==
    \E i \in IssuesOfType(ty) : issues[i].span = <<start, end>>

\* C3 as stated: every word of the forbidden lexicon, wherever it occurs
\* verbatim in lowercase in the text, yields a ForbiddenWord issue for that
\* occurrence.
C3_Original ==
    Returned =>
      \A w \in ForbiddenSet(forbiddenFile) :
         \A t \in TokenOccurrences(w) : HasIssue("ForbiddenWord", t[2], t[3])

\* C3 amended: every word of the forbidden lexicon that has at least three
\* characters, wherever it occurs verbatim in lowercase as a whole token of
\* the text, yields a ForbiddenWord issue with the span of that occurrence.
C3_ForbiddenWordReported ==
    Returned =>
      \A w \in ForbiddenSet(forbiddenFile) :
         Len(w) >= 3 =>
           \A t \in TokenOccurrences(w) : HasIssue("ForbiddenWord", t[2], t[3])

\* a forbidden word of three characters occurs as a token and is reported
C3_Witness ==
    /\ Returned
    /\ \E w \in ForbiddenSet(forbiddenFile) :
          /\ Len(w) >= 3
          /\ \E t \in TokenOccurrences(w) : HasIssue("ForbiddenWord", t[2], t[3])

\* a token that is shorter than 3 characters
ShortToken(tok) == Len(tok) < 3

\* all the cased characters of the token are uppercase and it has at least
\* 2 alphabetic characters
AcronymToken(tok) ==
    /\ \A i \in 1..Len(tok) : tok[i] \notin LowerLetters
    /\ \E i, j \in 1..Len(tok) : i # j /\ tok[i] \in UpperLetters /\ tok[j] \in UpperLetters

\* a token of digits only
NumericToken(tok) == \A i \in 1..Len(tok) : tok[i] \in Digits

\* the word loop passes over the token without looking at the lexicons
PassedOver(tok) == NumericToken(tok) \/ ShortToken(tok) \/ AcronymToken(tok)

\* C4 as stated: every token occurrence produces at most one word-level
\* issue; a token whose lowercase form is in the forbidden lexicon produces a
\* ForbiddenWord issue and never also an UnapprovedWord issue with the same
\* span, also when the word is not in the effective approved set.
C4_Original ==
    Returned =>
      LET toks == tokenize_words_with_spans(text) IN
      /\ \A a, b \in 1..Len(issues) :
            (a # b /\ IsWordIssue(issues[a]) /\ IsWordIssue(issues[b]))
               => issues[a].span # issues[b].span
      /\ \A i \in 1..Len(issues) :
            IsWordIssue(issues[i]) =>
               \E k \in 1..Len(toks) : issues[i].span = <<toks[k][2], toks[k][3]>>
      /\ \A k \in 1..Len(toks) :
            lower(toks[k][1]) \in ForbiddenSet(forbiddenFile)
               => /\ HasIssue("ForbiddenWord", toks[k][2], toks[k][3])
                  /\ ~HasIssue("UnapprovedWord", toks[k][2], toks[k][3])

\* C4 amended: every token occurrence produces at most one word-level issue;
\* a token whose lowercase form is in the forbidden lexicon never gets an
\* UnapprovedWord issue, also when the word is not in the effective approved
\* set, and it gets a ForbiddenWord issue with its span exactly when the word
\* loop does not pass over it, that is when it has at least 3 characters, is
\* not numeric and is not an acronym.
C4_OneWordIssuePerToken ==
    Returned =>
      LET toks == tokenize_words_with_spans(text) IN
      /\ \A a, b \in 1..Len(issues) :
            (a # b /\ IsWordIssue(issues[a]) /\ IsWordIssue(issues[b]))
               => issues[a].span # issues[b].span
      /\ \A i \in 1..Len(issues) :
            IsWordIssue(issues[i]) =>
               \E k \in 1..Len(toks) : issues[i].span = <<toks[k][2], toks[k][3]>>
      /\ \A k \in 1..Len(toks) :
            lower(toks[k][1]) \in ForbiddenSet(forbiddenFile)
               => /\ ~HasIssue("UnapprovedWord", toks[k][2], toks[k][3])
                  /\ HasIssue("ForbiddenWord", toks[k][2], toks[k][3])
                        <=> ~PassedOver(toks[k][1])

\* a token that is forbidden and also not approved got its ForbiddenWord
\* issue and no other, and a forbidden token that the loop passes over got
\* none
C4_Witness ==
    /\ Returned
    /\ LET toks == tokenize_words_with_spans(text) IN
       /\ \E k \in 1..Len(toks) :
             /\ lower(toks[k][1]) \in ForbiddenSet(forbiddenFile)
             /\ lower(toks[k][1]) \notin EffectiveApproved(approvedFile, allcapsFile).words
             /\ ~PassedOver(toks[k][1])
             /\ HasIssue("ForbiddenWord", toks[k][2], toks[k][3])
             /\ ~HasIssue("UnapprovedWord", toks[k][2], toks[k][3])
       /\ \E k \in 1..Len(toks) :
             /\ lower(toks[k][1]) \in ForbiddenSet(forbiddenFile)
             /\ PassedOver(toks[k][1])
             /\ ~HasIssue("ForbiddenWord", toks[k][2], toks[k][3])

\* C6: every returned issue, of any kind, has a span (start, end) with
\* 0 <= start <= end <= length of the linted text.
C6_SpansWithinText ==
    Returned =>
      \A i \in 1..Len(issues) :
         /\ 0 <= issues[i].span[1]
         /\ issues[i].span[1] <= issues[i].span[2]
         /\ issues[i].span[2] <= Len(text)

\* a returned list with an issue of each of the four kinds
C6_Witness ==
    /\ Returned
    /\ \A ty \in {"SentenceTooLong", "ForbiddenWord", "UnapprovedWord", "PassiveVoice"} :
          IssuesOfType(ty) # {}

\* the lowercase forms the quick-start sentence needs approved
QuickStartLower == {lower(w) : w \in QuickStartWords}
FunctionLower == {lower(w) : w \in FunctionWords}

\* the words of the approved file and of the allow-list file, in lowercase
ListedLower == {lower(strip(l)) : l \in approvedFile.lines \cup allcapsFile.lines}

\* no forbidden word is listed
NothingForbidden == forbiddenFile.lines = {}

NoWordOrPassiveIssue ==
    /\ IssuesOfType("ForbiddenWord") = {}
    /\ IssuesOfType("UnapprovedWord") = {}
    /\ IssuesOfType("PassiveVoice") = {}

\* C9 as stated: the quick-start sentence, linted with an empty forbidden
\* set and any effective approved set that contains operator, start, starts,
\* system, do, does, procedure, minute and minutes, yields no ForbiddenWord,
\* no UnapprovedWord and no PassiveVoice issue.
C9_Original ==
    ( /\ Returned /\ text = Sentence9
      /\ NothingForbidden
      /\ QuickStartLower \subseteq ListedLower )
    => NoWordOrPassiveIssue

\* C9 amended: the same, for any effective approved set that contains these
\* nine words and also "the" and "and".
C9_QuickStartSentenceClean ==
    ( /\ Returned /\ text = Sentence9
      /\ NothingForbidden
      /\ QuickStartLower \cup FunctionLower \subseteq ListedLower )
    => NoWordOrPassiveIssue

\* the quick-start sentence linted with such an approved set
C9_Witness ==
    /\ Returned /\ text = Sentence9
    /\ NothingForbidden
    /\ QuickStartLower \cup FunctionLower \subseteq ListedLower
    /\ NoWordOrPassiveIssue

BeVerbSet == {BeVerbs[a] : a \in 1..Len(BeVerbs)}

\* a be-verb that stands as a whole word at offset i, followed by whitespace
\* and a maximal run of word characters (letters, digits, underscore) of at
\* least minLen characters that ends in "ed", any letter case
IsBeEdAt(s, i, minLen) ==
    LET a == WordEnd(s, i)
        b == SpaceEnd(s, a)
        j == WordEnd(s, b)
    IN  /\ i = 0 \/ ~IsWordChar(At(s, i - 1))
        /\ lower(Slice(s, i, a)) \in BeVerbSet
        /\ b > a
        /\ j - b >= minLen
        /\ lower(Slice(s, j - 2, j)) = <<"e", "d">>

BeEdSpans(s, minLen) ==
    {<<i, WordEnd(s, SpaceEnd(s, WordEnd(s, i)))>> :
        i \in {k \in 0..(Len(s) - 1) : IsBeEdAt(s, k, minLen)}}

PassiveSpans == {issues[i].span : i \in IssuesOfType("PassiveVoice")}

\* C10 as stated: every occurrence of a be-verb followed by whitespace and
\* a word ending in "ed" produces exactly one PassiveVoice issue that spans
\* from the be-verb to the end of that word.
C10_Original ==
    Returned =>
      \A sp \in BeEdSpans(text, 2) :
         Cardinality({i \in IssuesOfType("PassiveVoice") : issues[i].span = sp}) = 1

\* C10 amended: every occurrence of a be-verb that stands as a whole word
\* (any letter case), followed by whitespace and a run of letters, digits
\* and underscores that has at least one character before its final "ed",
\* produces exactly one PassiveVoice issue whose span runs from the first
\* character of the be-verb to the end of that run, whatever the lexicons;
\* there are no other PassiveVoice issues, and "The valve was opened by the
\* technician." yields exactly one, spanning "was opened".
C10_PassiveVoiceMatches ==
    Returned =>
      /\ PassiveSpans = BeEdSpans(text, 3)
      /\ Cardinality(IssuesOfType("PassiveVoice")) = Cardinality(PassiveSpans)
      /\ \A i \in IssuesOfType("PassiveVoice") :
            issues[i].message = PassMsg(Slice(text, issues[i].span[1], issues[i].span[2]))
      /\ text = Sentence10 =>
            /\ PassiveSpans = {<<10, 20>>}
            /\ Slice(text, 10, 20) = <<"w","a","s"," ","o","p","e","n","e","d">>

\* the valve sentence linted, its one PassiveVoice issue reported
C10_Witness ==
    /\ Returned /\ text = Sentence10
    /\ \E i \in IssuesOfType("PassiveVoice") : issues[i].span = <<10, 20>>

----------------------------------------------------------------------------
(* Morphology runs: the two helpers applied to an uppercase base *)

BaseLetters == {"S", "T", "O", "P", "E", "Y", "I", "X", "H", "C", "B"}

RECURSIVE BasesOf(_)
BasesOf(n) == IF n = 0 THEN {<<>>}
              ELSE LET S == BasesOf(n - 1) IN S \cup {w \o <<c>> : w \in S, c \in BaseLetters}

\* the non-empty uppercase bases
Bases == BasesOf(MaxBaseLen) \ {<<>>}

InitMorph ==
    /\ pc = "morph"
    /\ base \in Bases
    /\ forms = NoForms
    /\ text = <<>> /\ maxWords = DefaultMaxWords
    /\ approvedFile = NoFile /\ forbiddenFile = NoFile /\ allcapsFile = NoFile
    /\ pdf = NoPdf /\ rebuild = FALSE /\ built = FALSE
    /\ argText = NoTextArg /\ argFile = NoFileArg
    /\ issues = <<>>

VerbInflections ==
    /\ pc = "morph"
    /\ forms' = [forms EXCEPT !.verb = _verb_inflections(base)]
    /\ pc' = "verbs"
    /\ UNCHANGED <<text, maxWords, approvedFile, forbiddenFile, allcapsFile,
                   pdf, rebuild, argText, argFile, built, issues, base>>

PluralForms ==
    /\ pc = "verbs"
    /\ forms' = [forms EXCEPT !.plural = _plural_forms(base)]
    /\ pc' = "plurals"
    /\ UNCHANGED <<text, maxWords, approvedFile, forbiddenFile, allcapsFile,
                   pdf, rebuild, argText, argFile, built, issues, base>>

NextMorph == VerbInflections \/ PluralForms

SpecMorph == InitMorph /\ [][NextMorph]_vars

\* C8: for every non-empty uppercase base, _verb_inflections(base) and
\* _plural_forms(base) each contain the base and at least one form that
\* differs from the base.
C8_BaseAndDerivedForm ==
    /\ pc \in {"verbs", "plurals"} =>
          base \in forms.verb /\ \E f \in forms.verb : f # base
    /\ pc = "plurals" =>
          base \in forms.plural /\ \E f \in forms.plural : f # base

\* both helpers applied: STOP inflected, or BOX pluralised
C8_Witness ==
    /\ pc = "plurals"
    /\ \/ /\ base = <<"S","T","O","P">>
          /\ forms.verb = {<<"S","T","O","P">>, <<"S","T","O","P","S">>,
                           <<"S","T","O","P","P","E","D">>,
                           <<"S","T","O","P","P","I","N","G">>}
       \/ /\ base = <<"B","O","X">>
          /\ forms.plural = {<<"B","O","X">>, <<"B","O","X","E","S">>}

----------------------------------------------------------------------------
(* Runs of main(): ensure the wordlists, then lint the input *)

\* "Word Approved meaning STE"
TableHeader ==
    <<"W","o","r","d"," ","A","p","p","r","o","v","e","d"," ","m","e","a","n","i","n","g"," ","S","T","E">>

\* "\nSTOP (v) "
RowStopV == <<"\n","S","T","O","P"," ","(","v",")"," ">>
\* "\nstop (n) "
RowStopN == <<"\n","s","t","o","p"," ","(","n",")"," ">>
\* "\nBOX (n) "
RowBoxN == <<"\n","B","O","X"," ","(","n",")"," ">>
\* "\nboxes (n) "
RowBoxes == <<"\n","b","o","x","e","s"," ","(","n",")"," ">>
\* "\nBox (n) "
RowMixed == <<"\n","B","o","x"," ","(","n",")"," ">>
\* "\nON (prep) "
RowOnPrep == <<"\n","O","N"," ","(","p","r","e","p",")"," ">>
\* "\non (adv) "
RowOnAdv == <<"\n","o","n"," ","(","a","d","v",")"," ">>

DocFrags == {TableHeader, RowStopV, RowStopN, RowBoxN, RowBoxes, RowMixed, RowOnPrep, RowOnAdv}

RECURSIVE DocBodies(_)
DocBodies(n) == IF n = 0 THEN {<<>>}
                ELSE LET S == DocBodies(n - 1) IN S \cup {d \o f : d \in S, f \in DocFrags}

\* dictionary texts: a table header and up to MaxRows further fragments, and
\* one text without any header
Docs == {TableHeader \o d : d \in DocBodies(MaxRows)} \cup {RowStopV}

Pdfs == {NoPdf}
          \cup {[exists |-> TRUE, reads |-> ReadsAlways, text |-> d] : d \in Docs}
          \cup {[exists |-> TRUE, reads |-> r, text |-> TableHeader \o RowStopV] : r \in {0, 1}}

\* "stop on Boxes"
ShortInput == <<"s","t","o","p"," ","o","n"," ","B","o","x","e","s">>
MainTexts == {ShortInput}

\* "Bad is used on."
FileText == <<"B","a","d"," ","i","s"," ","u","s","e","d"," ","o","n",".">>

\* the --text / --file arguments tried with every document
TextInputs == {<<NoTextArg, NoFileArg>>} \cup {<<TextArg(t), NoFileArg>> : t \in MainTexts}

\* the arguments tried with the documents of FewPdfs: an empty --text, and
\* --file with and without --text, to a file that is there or not
FileInputs ==
    {<<TextArg(<<>>), NoFileArg>>,
     <<NoTextArg, MissingInputFile>>, <<TextArg(ShortInput), MissingInputFile>>,
     <<NoTextArg, InputFileOf(FileText)>>, <<TextArg(ShortInput), InputFileOf(FileText)>>,
     <<TextArg(<<>>), InputFileOf(FileText)>>}

FewPdfs == {p \in Pdfs : p.text \in {<<>>, TableHeader \o RowStopV}}

\* mutant: the allow-list file left out of the existence test
TwoWordlistsExist(af, ff, cf) == af.exists /\ ff.exists

AllWordlistsExist(af, ff, cf) == af.exists /\ ff.exists /\ cf.exists

\* mutant: the approved and the forbidden file written as soon as the lexicon
\* builder returns, before the sweep reads the document
ensure_wordlists_writes_early(af, ff, cf, p) ==
    LET kept(st) == [status |-> st, approved |-> af, forbidden |-> ff,
                     allcaps |-> cf, built |-> FALSE]
    IN  IF af.exists /\ ff.exists /\ cf.exists THEN kept("returned")
        ELSE IF ~p.exists THEN kept("FileNotFoundError")
        ELSE IF p.reads < 1 THEN kept("RuntimeError")
        ELSE IF p.reads < 2
             THEN [status |-> "RuntimeError",
                   approved |-> FileOf(build_lexicons(p.text)[1]),
                   forbidden |-> FileOf(build_lexicons(p.text)[2]),
                   allcaps |-> cf, built |-> FALSE]
        ELSE [status |-> "returned",
              approved |-> FileOf(build_lexicons(p.text)[1]),
              forbidden |-> FileOf(build_lexicons(p.text)[2]),
              allcaps |-> FileOf(all_caps_words(p.text)), built |-> TRUE]

\* ensure_wordlists(approved_path, forbidden_path, allcaps_path, pdf_path):
\* how the call ends, the three files after it, and whether it built them
ensure_wordlists(af, ff, cf, p) ==
    LET kept(st) == [status |-> st, approved |-> af, forbidden |-> ff,
                     allcaps |-> cf, built |-> FALSE]
    IN  IF AllWordlistsExist(af, ff, cf) THEN kept("returned")
        ELSE IF ~p.exists THEN kept("FileNotFoundError")
        ELSE IF p.reads < 1 THEN kept("RuntimeError")   \* in build_lexicons_from_pdf
        ELSE IF p.reads < 2 THEN kept("RuntimeError")   \* in extract_all_caps_words
        ELSE LET lex == build_lexicons(p.text)
                 caps == all_caps_words(p.text)
             IN  [status |-> "returned", approved |-> FileOf(lex[1]),
                  forbidden |-> FileOf(lex[2]), allcaps |-> FileOf(caps),
                  built |-> TRUE]

InitMain ==
    /\ pc = "start"
    /\ approvedFile \in {NoFile, LexA[1]}
    /\ forbiddenFile \in {NoFile, LexA[2]}
    /\ allcapsFile \in {NoFile, LexA[3]}
    /\ rebuild \in BOOLEAN
    /\ \/ /\ pdf \in Pdfs
          /\ \E i \in TextInputs : argText = i[1] /\ argFile = i[2]
       \/ /\ pdf \in FewPdfs
          /\ \E i \in FileInputs : argText = i[1] /\ argFile = i[2]
    /\ text = <<>>
    /\ maxWords = DefaultMaxWords
    /\ built = FALSE
    /\ issues = <<>>
    /\ base = <<>> /\ forms = NoForms

\* main, lines 363-365
MainEnsure ==
    /\ pc = "start"
    /\ IF rebuild \/ ~AllWordlistsExist(approvedFile, forbiddenFile, allcapsFile)
       THEN LET r == ensure_wordlists(approvedFile, forbiddenFile, allcapsFile, pdf)
            IN  /\ approvedFile' = r.approved
                /\ forbiddenFile' = r.forbidden
                /\ allcapsFile' = r.allcaps
                /\ built' = r.built
                /\ pc' = IF r.status = "returned" THEN "ensured" ELSE "error"
       ELSE /\ pc' = "ensured"
            /\ UNCHANGED <<approvedFile, forbiddenFile, allcapsFile, built>>
    /\ UNCHANGED <<text, maxWords, pdf, rebuild, argText, argFile, issues, base, forms>>

\* args.text is a non-empty string
HasTextArg == argText.given /\ argText.value # <<>>

\* main, lines 367-372
MainNoInput ==
    /\ pc = "ensured"
    /\ ~HasTextArg /\ ~argFile.given
    /\ pc' = "exit"
    /\ UNCHANGED <<text, maxWords, approvedFile, forbiddenFile, allcapsFile,
                   pdf, rebuild, argText, argFile, built, issues, base, forms>>

\* main, lines 374-377: text = args.text or "", replaced by the content of
\* the file when args.file is given; open() raises when the file is missing
MainReadInput ==
    /\ pc = "ensured"
    /\ HasTextArg \/ argFile.given
    /\ IF argFile.given
       THEN IF argFile.exists
            THEN text' = argFile.content /\ pc' = "read"
            ELSE text' = (IF HasTextArg THEN argText.value ELSE <<>>) /\ pc' = "error"
       ELSE text' = (IF HasTextArg THEN argText.value ELSE <<>>) /\ pc' = "read"
    /\ UNCHANGED <<maxWords, approvedFile, forbiddenFile, allcapsFile,
                   pdf, rebuild, argText, argFile, built, issues, base, forms>>

\* main, line 379; an error of lint_text is not caught
MainLint ==
    /\ pc = "read"
    /\ LET r == lint_text(text, approvedFile, forbiddenFile, allcapsFile, maxWords)
       IN  /\ issues' = r.issues
           /\ pc' = IF r.status = "returned" THEN "linted" ELSE "error"
    /\ UNCHANGED <<text, maxWords, approvedFile, forbiddenFile, allcapsFile,
                   pdf, rebuild, argText, argFile, built, base, forms>>

NextMain == MainEnsure \/ MainNoInput \/ MainReadInput \/ MainLint

SpecMain == InitMain /\ [][NextMain]_vars

----------------------------------------------------------------------------
(* Properties of the build and of main() *)

ApprovedLexicon == load_wordlist(approvedFile).words
ForbiddenLexicon == load_wordlist(forbiddenFile).words

HasLower(w) == \E i \in 1..Len(w) : w[i] \in LowerLetters
HasUpper(w) == \E i \in 1..Len(w) : w[i] \in UpperLetters

\* C5 as stated: after a build no word is in both the approved and the
\* forbidden lexicon, the words compared in lowercase as the rule engine
\* matches them, inflected and plural forms included.
C5_Original ==
    built => {lower(w) : w \in ApprovedLexicon} \cap {lower(w) : w \in ForbiddenLexicon} = {}

\* C5 amended: after a build no word is in both the approved and the
\* forbidden lexicon when the words are compared as they are built and
\* written, case-sensitively: every approved form (inflected and plural forms
\* included) has an uppercase and no lowercase letter, every forbidden word
\* has a lowercase and no uppercase letter.  Their lowercase forms can
\* coincide.
C5_LexiconsDisjointAsBuilt ==
    built =>
      /\ ApprovedLexicon \cap ForbiddenLexicon = {}
      /\ \A w \in ApprovedLexicon : HasUpper(w) /\ ~HasLower(w)
      /\ \A w \in ForbiddenLexicon : HasLower(w) /\ ~HasUpper(w)

\* a build that put the plural BOXES in the approved lexicon and the
\* headword boxes in the forbidden one
C5_Witness ==
    /\ built
    /\ <<"B","O","X","E","S">> \in ApprovedLexicon
    /\ <<"b","o","x","e","s">> \in ForbiddenLexicon

\* C7 as stated: a run with --rebuild and an existing (readable) dictionary
\* document runs the lexicon builder and the sweep and rewrites the three
\* wordlist files from the document before linting, also when all three
\* files already exist.
C7_RebuildRewrites ==
    ( /\ pc \in {"ensured", "read", "exit", "linted"}
      /\ rebuild /\ pdf.exists /\ pdf.reads = ReadsAlways )
    => /\ built
       /\ approvedFile = FileOf(build_lexicons(pdf.text)[1])
       /\ forbiddenFile = FileOf(build_lexicons(pdf.text)[2])
       /\ allcapsFile = FileOf(all_caps_words(pdf.text))

\* the document exists and one of the two extract_text_from_pdf calls of a
\* build raises (line 228 or line 229)
ExtractionFails == pdf.exists /\ pdf.reads < ReadsAlways

SomeWordlistMissing ==
    ~approvedFile.exists \/ ~forbiddenFile.exists \/ ~allcapsFile.exists

\* C11: when the extraction of the document text fails during a build, in
\* the lexicon builder or in the sweep, the run ends with an error and the
\* three wordlist files are as they were before: none is created, none is
\* modified, and nothing counts as built.
C11_NoPartialLexicon ==
    [][ (pc = "start" /\ SomeWordlistMissing /\ ExtractionFails)
        => /\ pc' = "error"
           /\ approvedFile' = approvedFile
           /\ forbiddenFile' = forbiddenFile
           /\ allcapsFile' = allcapsFile
           /\ built' = FALSE ]_vars

\* a build that failed in the sweep, after the lexicon builder had read the
\* document: the approved file that was there is kept, the missing allow-list
\* is still missing
C11_Witness ==
    /\ pc = "error"
    /\ pdf.exists /\ pdf.reads = 1
    /\ approvedFile = LexA[1]
    /\ ~forbiddenFile.exists
    /\ ~allcapsFile.exists
    /\ ~built

\* lint_text is called from the state in which main has passed the
\* wordlist step and has read its input
LintTextInvoked == pc = "read"

\* C12: from every combination of present and missing wordlist files and
\* document, (a) main calls lint_text only when the approved, the forbidden
\* and the allow-list file all exist; (b) a run that starts with a wordlist
\* missing either writes all three files from the document or ends with an
\* error and never lints; (c) the call of lint_text leaves the three files
\* as they are and builds nothing.
C12_LintOnlyWithWordlists ==
    /\ [](LintTextInvoked =>
            approvedFile.exists /\ forbiddenFile.exists /\ allcapsFile.exists)
    /\ [][ (pc = "start" /\ SomeWordlistMissing)
            => \/ /\ pc' = "error"
                  /\ issues' = <<>>
               \/ /\ pc' = "ensured"
                  /\ built'
                  /\ LET lex == build_lexicons(pdf.text)
                     IN  /\ approvedFile' = FileOf(lex[1])
                         /\ forbiddenFile' = FileOf(lex[2])
                  /\ allcapsFile' = FileOf(all_caps_words(pdf.text)) ]_vars
    /\ [][ pc = "error" => pc' = "error" ]_vars
    /\ [][ LintTextInvoked
            => /\ pc' = "linted"
               /\ approvedFile' = approvedFile
               /\ forbiddenFile' = forbiddenFile
               /\ allcapsFile' = allcapsFile
               /\ built' = built ]_vars

\* a run that found the allow-list missing, rebuilt the three files from the
\* document and then linted the input against them
C12_Witness ==
    /\ pc = "linted"
    /\ built
    /\ approvedFile = FileOf(build_lexicons(pdf.text)[1])
    /\ forbiddenFile.exists /\ allcapsFile.exists
    /\ issues # <<>>

----------------------------------------------------------------------------
(* Properties of the sentence splitter, the verb forms and the skipped tokens *)

\* the sentences lint_text gets from split_sentences_with_spans (line 296)
Sentences == split_sentences_with_spans(text)

\* a sentence with nothing in it but sentence terminators
TerminatorOnly(chunk) == \A i \in 1..Len(chunk) : IsTerminator(chunk[i])

\* the k-th sentence is made by a terminator that comes directly after
\* another terminator, and has nothing else in it
FromTerminatorRun(k) ==
    LET start == Sentences[k][2]
    IN  /\ start > 0
        /\ IsTerminator(At(text, start - 1))
        /\ IsTerminator(At(text, start))
        /\ TerminatorOnly(Sentences[k][1])

\* the sentences before the k-th that do not come from a run of terminators
ProperSentencesBefore(k) == {j \in 1..(k - 1) : ~FromTerminatorRun(j)}

\* C13 as stated: the splitter emits no empty sentence, consecutive
\* terminators ("..", "?!", "...") give no sentence that consists only of a
\* terminator, and such runs do not change the sentence_index of the
\* sentences after them: the sentence_index of every SentenceTooLong issue
\* counts only the sentences before it that do not come from such a run.
C13_NoTerminatorOnlySentence ==
    Returned =>
      /\ \A k \in 1..Len(Sentences) :
            Sentences[k][1] # <<>> /\ ~FromTerminatorRun(k)
      /\ \A i \in IssuesOfType("SentenceTooLong") :
            \A k \in 1..Len(Sentences) :
              issues[i].span = <<Sentences[k][2], Sentences[k][3]>>
                => issues[i].sentence_index = Cardinality(ProperSentencesBefore(k))

UpperVowels == {"A", "E", "I", "O", "U"}

\* the base ends in the letters of suffix
EndsIn(b, suffix) ==
    /\ Len(b) >= Len(suffix)
    /\ \A i \in 1..Len(suffix) : b[Len(b) - Len(suffix) + i] = suffix[i]

\* at least three characters, the last three consonant-vowel-consonant, and
\* the last one not W, X or Y
DoublesFinalConsonant(b) ==
    /\ Len(b) >= 3
    /\ b[Len(b) - 2] \notin UpperVowels
    /\ b[Len(b) - 1] \in UpperVowels
    /\ b[Len(b)] \notin UpperVowels \cup {"W", "X", "Y"}

StatedThirdPerson(b) ==
    IF \E e \in {<<"S">>, <<"X">>, <<"Z">>, <<"C","H">>, <<"S","H">>, <<"O">>} : EndsIn(b, e)
    THEN b \o <<"E","S">>
    ELSE IF Len(b) >= 2 /\ b[Len(b)] = "Y" /\ b[Len(b) - 1] \notin UpperVowels
         THEN SubSeq(b, 1, Len(b) - 1) \o <<"I","E","S">>
         ELSE b \o <<"S">>

StatedPast(b) ==
    IF EndsIn(b, <<"E">>) THEN b \o <<"D">>
    ELSE IF DoublesFinalConsonant(b) THEN b \o <<b[Len(b)], "E", "D">>
    ELSE b \o <<"E","D">>

StatedParticiple(b) ==
    IF EndsIn(b, <<"I","E">>) THEN SubSeq(b, 1, Len(b) - 2) \o <<"Y","I","N","G">>
    ELSE IF EndsIn(b, <<"E">>) /\ ~EndsIn(b, <<"E","E">>)
         THEN SubSeq(b, 1, Len(b) - 1) \o <<"I","N","G">>
    ELSE IF DoublesFinalConsonant(b) THEN b \o <<b[Len(b)], "I", "N", "G">>
    ELSE b \o <<"I","N","G">>

\* C14: for every uppercase base, _verb_inflections(base) is exactly the set
\* of the base, its third-person form, its past form and its present
\* participle: the past form is base+"D" after a final E, base + last
\* character + "ED" when the last three characters are
\* consonant-vowel-consonant and the last is not W/X/Y, base+"ED" otherwise;
\* the participle applies the same doubling test after the "IE" case and the
\* final-"E"-but-not-"EE" case.
C14_VerbInflectionsExact ==
    pc \in {"verbs", "plurals"} =>
        forms.verb = {base, StatedThirdPerson(base), StatedPast(base),
                      StatedParticiple(base)}

\* the verb forms computed for a base whose final consonant is doubled
\* (STOP), and for a base that ends in consonant-vowel-X and is not doubled
C14_Witness ==
    /\ pc = "verbs"
    /\ \/ /\ base = <<"S","T","O","P">>
          /\ <<"S","T","O","P","P","E","D">> \in forms.verb
          /\ <<"S","T","O","P","P","I","N","G">> \in forms.verb
          /\ Cardinality(forms.verb) = 4
       \/ /\ base = <<"B","O","X">>
          /\ <<"B","O","X","E","D">> \in forms.verb

\* the token's lowercase form is a line of the forbidden file
LowerFormForbidden(tok) == \E l \in forbiddenFile.lines : lower(strip(l)) = lower(tok)

\* C15: a token that is shorter than 3 characters or that is an acronym gets
\* neither a ForbiddenWord nor an UnapprovedWord issue, whatever the
\* forbidden and approved sets hold, also when its lowercase form is in the
\* forbidden lexicon.
C15_ShortAndAcronymSkipped ==
    Returned =>
      LET toks == tokenize_words_with_spans(text) IN
      \A k \in 1..Len(toks) :
         (ShortToken(toks[k][1]) \/ AcronymToken(toks[k][1]))
            => /\ ~HasIssue("ForbiddenWord", toks[k][2], toks[k][3])
               /\ ~HasIssue("UnapprovedWord", toks[k][2], toks[k][3])

\* the text had an acronym of three letters and a two-letter token, both
\* with their lowercase form in the forbidden file and neither approved, and
\* neither was reported, while a lowercase forbidden token was
C15_Witness ==
    /\ Returned
    /\ LET toks == tokenize_words_with_spans(text) IN
       /\ \E k \in 1..Len(toks) :
             /\ AcronymToken(toks[k][1]) /\ ~ShortToken(toks[k][1])
             /\ LowerFormForbidden(toks[k][1])
             /\ lower(toks[k][1]) \notin ListedLower
             /\ ~HasIssue("ForbiddenWord", toks[k][2], toks[k][3])
       /\ \E k \in 1..Len(toks) :
             /\ ShortToken(toks[k][1]) /\ ~AcronymToken(toks[k][1])
             /\ LowerFormForbidden(toks[k][1])
             /\ ~HasIssue("ForbiddenWord", toks[k][2], toks[k][3])
    /\ IssuesOfType("ForbiddenWord") # {}

====
